---- MODULE Spec2Model ----
(***************************************************************************)
(* A model of src/core/swap/swap-api.js of edge-core-js: fetchSwapQuote,   *)
(* the quote comparator pickBestQuote, the error ranker pickBestError and  *)
(* the quote normalizer upgradeQuote.  The race primitive fuzzyTimeout     *)
(* lives in util/promise.js and is modelled from its contract.             *)
(*                                                                         *)
(* JavaScript values: an absent/undefined field is the string "unset";     *)
(* booleans that can be absent are the strings "true" / "false" / "unset"; *)
(* amounts (decimal integer strings in the source) are naturals.           *)
(***************************************************************************)
EXTENDS Integers, Sequences, FiniteSets, TLC

\* ------------------------------------------------------------------ bounds

\* Number of swap plugins in the registry ai.props.state.plugins.swap.
MaxPlugins == 3

\* ------------------------------------------------------------- JS helpers

Unset == "unset"

\* The TypeError the runtime raises on a property access or destructuring of
\* null / undefined.
TypeError == [name |-> "TypeError", nativeMin |-> 0, nativeMax |-> 0]

\* A promise rejected with null / undefined.
Null == [name |-> "<null>", nativeMin |-> 0, nativeMax |-> 0]

\* The result of a call that may throw.
Ret(v) == [threw |-> FALSE, value |-> v]
Throw(e) == [threw |-> TRUE, value |-> e]

\* biggystring: div(x, y) with the default precision 0 is the integer
\* quotient of the two decimal strings; gt and lt compare them as numbers.
div(x, y) == x \div y
gt(x, y) == x > y
lt(x, y) == x < y

\* ------------------------------------------------------- the plugin registry

PluginIds == <<"p1", "p2", "p3", "p4", "p5">>

\* Object.keys(swapPlugins), in insertion order.
PluginKeys == [i \in 1..MaxPlugins |-> PluginIds[i]]
Plugins == {PluginKeys[i] : i \in 1..MaxPlugins}

\* ai.props.state.plugins.swap: the first plugin publishes no quoteUri.
swapPlugins ==
  [p \in Plugins |->
    [swapInfo |-> [quoteUri |-> IF p = "p1" THEN Unset ELSE "https://" \o p \o "/"]]]

\* ---------------------------------------------------------- pickBestQuote

\* The provider identity the comparator reads off a quote.
QuoteProvider(q) == q.pluginName

\* promoCodes[id] != null
HasPromo(promoCodes, id) == id \in DOMAIN promoCodes

\* Each rule of the reducer answers "a", "b" or "next" (fall through).

\* PreferRule without its second test (line 102 dropped).
PreferRuleLeftOnly(a, b, preferPluginId) ==
  IF QuoteProvider(a) = preferPluginId THEN "a" ELSE "next"

\* Always return quotes from the preferred provider.
PreferRule(a, b, preferPluginId) ==
  IF QuoteProvider(a) = preferPluginId THEN "a"
  ELSE IF QuoteProvider(b) = preferPluginId THEN "b"
  ELSE "next"

\* Prioritize providers with active promo codes.
PromoRule(a, b, promoCodes) ==
  LET aHasPromo == HasPromo(promoCodes, QuoteProvider(a))
      bHasPromo == HasPromo(promoCodes, QuoteProvider(b))
  IN IF aHasPromo /\ ~bHasPromo THEN "b"
     ELSE IF ~aHasPromo /\ bHasPromo THEN "a"
     ELSE "next"

\* const { isEstimate = true } = quote
IsEstimate(q) == IF q.isEstimate = Unset THEN TRUE ELSE q.isEstimate = "true"

\* EstimateRule with its two returns swapped.
EstimateRuleInverted(a, b) ==
  IF IsEstimate(a) /\ ~IsEstimate(b) THEN "a"
  ELSE IF ~IsEstimate(a) /\ IsEstimate(b) THEN "b"
  ELSE "next"

\* EstimateRule without its second test (line 114 dropped).
EstimateRuleRightOnly(a, b) ==
  IF IsEstimate(a) /\ ~IsEstimate(b) THEN "b" ELSE "next"

\* Prioritize accurate quotes over estimates.
EstimateRule(a, b) ==
  IF IsEstimate(a) /\ ~IsEstimate(b) THEN "b"
  ELSE IF ~IsEstimate(a) /\ IsEstimate(b) THEN "a"
  ELSE "next"

\* Prefer the best rate.
RateRule(a, b) ==
  LET aRate == div(a.toNativeAmount, a.fromNativeAmount)
      bRate == div(b.toNativeAmount, b.fromNativeAmount)
  IN IF gt(bRate, aRate) THEN "b" ELSE "a"

\* The callback of quotes.reduce.
QuoteReducer(a, b, preferPluginId, promoCodes) ==
  LET prefer == PreferRule(a, b, preferPluginId)
      promo == PromoRule(a, b, promoCodes)
      estimate == EstimateRule(a, b)
      side == IF prefer # "next" THEN prefer
              ELSE IF promo # "next" THEN promo
              ELSE IF estimate # "next" THEN estimate
              ELSE RateRule(a, b)
  IN IF side = "a" THEN a ELSE b

RECURSIVE ReduceQuotes(_, _, _, _, _)
ReduceQuotes(acc, quotes, i, preferPluginId, promoCodes) ==
  IF i > Len(quotes) THEN acc
  ELSE ReduceQuotes(QuoteReducer(acc, quotes[i], preferPluginId, promoCodes),
                    quotes, i + 1, preferPluginId, promoCodes)

\* quotes.reduce(...) without an initial value, on a non-empty list.
pickBestQuote(quotes, preferPluginId, promoCodes) ==
  ReduceQuotes(quotes[1], quotes, 2, preferPluginId, promoCodes)

\* ---------------------------------------------------------- pickBestError

\* Ranks different error codes by priority.
rankError(error) ==
  IF error = Null THEN 0
  ELSE IF error.name = "InsufficientFundsError" THEN 6
  ELSE IF error.name = "PendingFundsError" THEN 6
  ELSE IF error.name = "SwapBelowLimitError" THEN 5
  ELSE IF error.name = "SwapAboveLimitError" THEN 4
  ELSE IF error.name = "SwapPermissionError" THEN 3
  ELSE IF error.name = "SwapCurrencyError" THEN 2
  ELSE 1

\* The callback of errors.reduce; a.name on a null accumulator raises.
ErrorReducer(a, b) ==
  LET diff == rankError(a) - rankError(b)
  IN IF diff > 0 THEN Ret(a)
     ELSE IF diff < 0 THEN Ret(b)
     ELSE IF a = Null THEN Throw(TypeError)
     ELSE IF a.name = "SwapBelowLimitError"
       THEN (IF lt(a.nativeMin, b.nativeMin) THEN Ret(a) ELSE Ret(b))
     ELSE IF a.name = "SwapAboveLimitError"
       THEN (IF gt(a.nativeMax, b.nativeMax) THEN Ret(a) ELSE Ret(b))
     ELSE Ret(a)

RECURSIVE ReduceErrors(_, _, _)
ReduceErrors(acc, errors, i) ==
  IF i > Len(errors) THEN Ret(acc)
  ELSE LET step == ErrorReducer(acc, errors[i])
       IN IF step.threw THEN step ELSE ReduceErrors(step.value, errors, i + 1)

\* errors.reduce(...) without an initial value, on a non-empty list.
pickBestError(errors) == ReduceErrors(errors[1], errors, 2)

\* ------------------------------------------------------------ upgradeQuote

\* upgradeQuote without the quoteId test of line 172.
upgradeQuoteNoIdTest(quote, plugins) ==
  LET isEstimate == IF IsEstimate(quote) THEN "true" ELSE "false"
      pluginId == IF quote.pluginId = Unset THEN quote.pluginName ELSE quote.pluginId
  IN IF pluginId \notin DOMAIN plugins THEN Throw(TypeError)
     ELSE LET swapInfo == plugins[pluginId].swapInfo
              quoteUri == IF swapInfo.quoteUri # Unset
                          THEN swapInfo.quoteUri \o quote.quoteId
                          ELSE Unset
          IN Ret([id |-> quote.id, pluginName |-> quote.pluginName,
                  pluginId |-> pluginId, isEstimate |-> isEstimate,
                  toNativeAmount |-> quote.toNativeAmount,
                  fromNativeAmount |-> quote.fromNativeAmount,
                  quoteId |-> quote.quoteId, close |-> quote.close,
                  quoteUri |-> quoteUri])

\* Turns a raw quote from the plugins into something the GUI expects:
\* { ...quote, isEstimate, pluginId, quoteUri }.  The destructuring of
\* swapPlugins[pluginId] raises when no such plugin exists.
upgradeQuote(quote, plugins) ==
  LET isEstimate == IF IsEstimate(quote) THEN "true" ELSE "false"
      pluginId == IF quote.pluginId = Unset THEN quote.pluginName ELSE quote.pluginId
  IN IF pluginId \notin DOMAIN plugins THEN Throw(TypeError)
     ELSE LET swapInfo == plugins[pluginId].swapInfo
              quoteUri == IF quote.quoteId # Unset /\ swapInfo.quoteUri # Unset
                          THEN swapInfo.quoteUri \o quote.quoteId
                          ELSE Unset
          IN Ret([id |-> quote.id, pluginName |-> quote.pluginName,
                  pluginId |-> pluginId, isEstimate |-> isEstimate,
                  toNativeAmount |-> quote.toNativeAmount,
                  fromNativeAmount |-> quote.fromNativeAmount,
                  quoteId |-> quote.quoteId, close |-> quote.close,
                  quoteUri |-> quoteUri])

\* ------------------------------------------------------------------ state

VARIABLES
  pc,          \* where the call is: "idle", "waiting", "resolved", "rejected",
               \* "picked", "returned", "thrown"
  swapSettings,\* account.swapSettings: plugin id -> its enabled flag
  opts,        \* the caller's EdgeSwapRequestOptions object
  promoCodes,  \* the local promoCodes of the call (after the legacy merge)
  fetchCount,  \* plugin id -> number of fetchSwapQuote invocations on it
  promises,    \* the promises array: the plugin ids whose fetch was started
  task,        \* plugin id -> state of its promise
  results,     \* fuzzyTimeout: the quotes collected so far, in arrival order
  failures,    \* fuzzyTimeout: the failures collected so far, in arrival order
  timer,       \* fuzzyTimeout: "idle", "armed", "fired" or "cleared"
  bestQuote,   \* the local bestQuote of the success handler
  bestError,   \* the value of pickBestError(errors)
  closeCalls,  \* plugin id -> number of close() invocations on its quote
  outcome      \* what the call settled with

vars == <<pc, swapSettings, opts, promoCodes, fetchCount, promises, task,
          results, failures, timer, bestQuote, bestError, closeCalls, outcome>>

EmptyMap == [id \in {} |-> Unset]
NoOutcome == [kind |-> "none"]
NoQuote == [id |-> Unset]
NoError == Ret([name |-> Unset, nativeMin |-> 0, nativeMax |-> 0])

\* throw new Error('No swap providers enabled')
NoProvidersError ==
  [name |-> "Error: No swap providers enabled", nativeMin |-> 0, nativeMax |-> 0]

\* What a close() that throws raises.
CloseError == [name |-> "CloseError", nativeMin |-> 0, nativeMax |-> 0]

SeqToSet(s) == {s[i] : i \in 1..Len(s)}

\* --------------------------------------------- option normalizer, selector

\* An optional object-valued field of opts: absent, or present with value v.
Absent == <<>>
Present(v) == <<v>>

\* const { disabled = {}, promoCodes = {} } = opts, then the upgrade of the
\* deprecated opts.plugins.  The flat disabled map is the set of ids it maps to
\* true.  The locals alias the caller's objects when the caller supplied them,
\* so `opts` is the caller's object as the loop leaves it.
UpgradeOptions(o) ==
  LET disabled0 == IF o.disabled = Absent THEN {} ELSE o.disabled[1]
      promo0 == IF o.promoCodes = Absent THEN EmptyMap ELSE o.promoCodes[1]
      legacy == IF o.plugins = Absent THEN EmptyMap ELSE o.plugins[1]
      ids == DOMAIN legacy
      newPromo == {id \in ids : legacy[id].promoCode # Unset}
      disabled1 == disabled0 \cup {id \in ids : legacy[id].disabled}
      promo1 == [id \in DOMAIN promo0 \cup newPromo |->
                  IF id \in newPromo THEN legacy[id].promoCode ELSE promo0[id]]
  IN [disabled |-> disabled1,
      promoCodes |-> promo1,
      opts |-> [o EXCEPT
                 !.disabled = IF o.disabled = Absent THEN Absent ELSE Present(disabled1),
                 !.promoCodes = IF o.promoCodes = Absent THEN Absent ELSE Present(promo1)]]

\* Enabled without the default: an absent flag counts as false.
EnabledNoDefault(settings, pluginId) == settings[pluginId] = "true"

\* const { enabled = true } = swapSettings[pluginId] != null ? ... : {}
Enabled(settings, pluginId) == settings[pluginId] # "false"

\* Starts without the filter: every plugin is started.
StartsAlways(settings, disabled, pluginId) == TRUE

\* if (!enabled || disabled[pluginId]) continue
Starts(settings, disabled, pluginId) ==
  Enabled(settings, pluginId) /\ pluginId \notin disabled

\* The plugin ids the loop over Object.keys(swapPlugins) starts a fetch on.
Selected(settings, disabled) ==
  SelectSeq(PluginKeys, LAMBDA p : Starts(settings, disabled, p))

\* The synchronous part of fetchSwapQuote, up to the call of fuzzyTimeout.
FetchSwapQuote ==
  /\ pc = "idle"
  /\ LET up == UpgradeOptions(opts)
         started == Selected(swapSettings, up.disabled)
     IN /\ opts' = up.opts
        /\ promoCodes' = up.promoCodes
        /\ promises' = started
        /\ fetchCount' = [p \in Plugins |->
                           fetchCount[p] + Cardinality({i \in 1..Len(started) : started[i] = p})]
        /\ task' = [p \in Plugins |-> IF p \in SeqToSet(started) THEN "pending" ELSE task[p]]
        /\ IF Len(started) < 1
             THEN /\ pc' = "thrown"
                  /\ outcome' = [kind |-> "error", value |-> NoProvidersError]
                  /\ timer' = timer
             ELSE /\ pc' = "waiting"
                  /\ outcome' = outcome
                  /\ timer' = "armed"
  /\ UNCHANGED <<swapSettings, results, failures, bestQuote, bestError, closeCalls>>

\* -------------------------------------------------- the plugins' answers

CloseBehaviours == {"resolves", "rejects", "throws"}

\* toNativeAmount of the quote each plugin answers with (fromNativeAmount 2).
QuoteAmounts == <<2, 4, 3, 5, 2>>

PluginIndex(p) == CHOOSE i \in 1..Len(PluginIds) : PluginIds[i] = p

\* The quotes plugin p may answer with; `id` is the identity of the object.
FetchedQuotes(p) ==
  {[id |-> p, pluginName |-> p, pluginId |-> Unset, isEstimate |-> Unset,
    toNativeAmount |-> QuoteAmounts[PluginIndex(p)], fromNativeAmount |-> 2,
    quoteId |-> "q", close |-> c] : c \in CloseBehaviours}

MakeError(name) == [name |-> name, nativeMin |-> 0, nativeMax |-> 0]

\* The failures a plugin may answer with.
FetchedErrors == {MakeError("InsufficientFundsError"), MakeError("SwapCurrencyError")}

\* ------------------------------------------------------------ fuzzyTimeout

\* All the promises have settled.
AllSettled(res, fail) == Len(res) + Len(fail) = Len(promises)

\* The primitive resolves once a success exists and either the deadline has
\* passed or every task has settled.
FuzzyResolves(res, fail, tmr) ==
  Len(res) > 0 /\ (tmr = "fired" \/ AllSettled(res, fail))

\* The primitive rejects only once every task has settled without a success.
FuzzyRejects(res, fail, tmr) ==
  Len(res) = 0 /\ AllSettled(res, fail)

FuzzyPc(res, fail, tmr) ==
  IF FuzzyResolves(res, fail, tmr) THEN "resolved"
  ELSE IF FuzzyRejects(res, fail, tmr) THEN "rejected"
  ELSE "waiting"

FuzzyTimer(res, fail, tmr) ==
  IF tmr = "armed" /\ AllSettled(res, fail) THEN "cleared" ELSE tmr

\* The promise of plugin p resolves with quote q.  While the primitive is
\* waiting the quote joins the results; a quote that arrives after the
\* primitive has settled is not part of the result and is released.
TaskResolve(p, q) ==
  /\ task[p] = "pending"
  /\ task' = [task EXCEPT ![p] = "resolved"]
  /\ IF pc = "waiting"
       THEN /\ results' = Append(results, q)
            /\ pc' = FuzzyPc(results', failures, timer)
            /\ timer' = FuzzyTimer(results', failures, timer)
            /\ closeCalls' = closeCalls
       ELSE /\ closeCalls' = [closeCalls EXCEPT ![p] = @ + 1]
            /\ UNCHANGED <<results, pc, timer>>
  /\ UNCHANGED <<swapSettings, opts, promoCodes, fetchCount, promises, failures,
                 bestQuote, bestError, outcome>>

\* The promise of plugin p rejects with e.
TaskReject(p, e) ==
  /\ task[p] = "pending"
  /\ task' = [task EXCEPT ![p] = "rejected"]
  /\ IF pc = "waiting"
       THEN /\ failures' = Append(failures, e)
            /\ pc' = FuzzyPc(results, failures', timer)
            /\ timer' = FuzzyTimer(results, failures', timer)
       ELSE UNCHANGED <<failures, pc, timer>>
  /\ UNCHANGED <<swapSettings, opts, promoCodes, fetchCount, promises, results,
                 bestQuote, bestError, closeCalls, outcome>>

\* The 20 second deadline passes.
Deadline ==
  /\ pc = "waiting"
  /\ timer = "armed"
  /\ timer' = "fired"
  /\ pc' = FuzzyPc(results, failures, "fired")
  /\ UNCHANGED <<swapSettings, opts, promoCodes, fetchCount, promises, task,
                 results, failures, bestQuote, bestError, closeCalls, outcome>>

\* ------------------------------------------------------------ the handlers

\* ClosedPositions with a loop that stops after the first close().
ClosedPositionsFirstOnly(quotes, best) ==
  LET losers == {i \in 1..Len(quotes) : quotes[i].id # best.id}
  IN {i \in losers : \A j \in losers : i <= j}

\* ClosedPositions without the test quote !== bestQuote of line 72.
ClosedPositionsAll(quotes, best) ==
  LET throwers == {i \in 1..Len(quotes) : quotes[i].close = "throws"}
  IN {i \in 1..Len(quotes) : \A j \in throwers : i <= j}

\* ClosedPositions with a loop that ends when it reaches bestQuote.
ClosedPositionsBeforeWinner(quotes, best) ==
  LET winner == {i \in 1..Len(quotes) : quotes[i].id = best.id}
      throwers == {i \in 1..Len(quotes) : quotes[i].id # best.id /\ quotes[i].close = "throws"}
  IN {i \in 1..Len(quotes) : (\A j \in winner : i < j) /\ (\A j \in throwers : i <= j)}

\* Positions of the quotes the loop calls close() on: every quote that is not
\* bestQuote, up to the first whose close() throws.
ClosedPositions(quotes, best) ==
  LET losers == {i \in 1..Len(quotes) : quotes[i].id # best.id}
      throwers == {i \in losers : quotes[i].close = "throws"}
  IN {i \in losers : \A j \in throwers : i <= j}

\* Some close() call of the loop throws.
CloseThrows(quotes, best) ==
  \E i \in 1..Len(quotes) : quotes[i].id # best.id /\ quotes[i].close = "throws"

\* ResolveHandler that first waits for every promise to settle.
ResolveHandlerAwaitsAll ==
  /\ pc = "resolved"
  /\ \A p \in Plugins : task[p] # "pending"
  /\ \E best \in {pickBestQuote(results, opts.preferPluginId, promoCodes)} :
     \E upgraded \in {upgradeQuote(best, swapPlugins)} :
        /\ bestQuote' = best
        /\ closeCalls' = [p \in Plugins |->
             closeCalls[p] + Cardinality({i \in ClosedPositions(results, best) : results[i].id = p})]
        /\ IF CloseThrows(results, best)
             THEN /\ pc' = "thrown"
                  /\ outcome' = [kind |-> "error", value |-> CloseError]
             ELSE IF upgraded.threw
               THEN /\ pc' = "thrown"
                    /\ outcome' = [kind |-> "error", value |-> upgraded.value]
               ELSE /\ pc' = "returned"
                    /\ outcome' = [kind |-> "quote", value |-> upgraded.value]
  /\ UNCHANGED <<swapSettings, opts, promoCodes, fetchCount, promises, task,
                 results, failures, timer, bestError>>

\* The success handler: pick the best quote, close the others, upgrade.
ResolveHandler ==
  /\ pc = "resolved"
  /\ \E best \in {pickBestQuote(results, opts.preferPluginId, promoCodes)} :
     \E closed \in {ClosedPositions(results, best)} :
     \E upgraded \in {upgradeQuote(best, swapPlugins)} :
        /\ bestQuote' = best
        /\ closeCalls' = [p \in Plugins |->
             closeCalls[p] + Cardinality({i \in closed : results[i].id = p})]
        /\ IF CloseThrows(results, best)
             THEN /\ pc' = "thrown"
                  /\ outcome' = [kind |-> "error", value |-> CloseError]
             ELSE IF upgraded.threw
               THEN /\ pc' = "thrown"
                    /\ outcome' = [kind |-> "error", value |-> upgraded.value]
               ELSE /\ pc' = "returned"
                    /\ outcome' = [kind |-> "quote", value |-> upgraded.value]
  /\ UNCHANGED <<swapSettings, opts, promoCodes, fetchCount, promises, task,
                 results, failures, timer, bestError>>

\* The log call destructures every error: const { name, message } = error.
LogThrows(errors) == \E i \in 1..Len(errors) : errors[i] = Null

\* RejectHandler that ranks the failures without the last one.
RejectHandlerDropsLast ==
  /\ pc = "rejected"
  /\ pc' = "thrown"
  /\ IF LogThrows(failures)
       THEN /\ outcome' = [kind |-> "error", value |-> TypeError]
            /\ bestError' = bestError
       ELSE /\ bestError' = pickBestError(IF Len(failures) > 1
                                            THEN SubSeq(failures, 1, Len(failures) - 1)
                                            ELSE failures)
            /\ outcome' = [kind |-> "error", value |-> bestError'.value]
  /\ UNCHANGED <<swapSettings, opts, promoCodes, fetchCount, promises, task,
                 results, failures, timer, bestQuote, closeCalls>>

\* The rejection handler: log the errors, throw the best one.
RejectHandler ==
  /\ pc = "rejected"
  /\ pc' = "thrown"
  /\ IF LogThrows(failures)
       THEN /\ outcome' = [kind |-> "error", value |-> TypeError]
            /\ bestError' = bestError
       ELSE /\ bestError' = pickBestError(failures)
            /\ outcome' = [kind |-> "error", value |-> bestError'.value]
  /\ UNCHANGED <<swapSettings, opts, promoCodes, fetchCount, promises, task,
                 results, failures, timer, bestQuote, closeCalls>>

\* pickBestError applied to the failure list on its own.
ApplyPickBestError ==
  /\ pc = "rejected"
  /\ pc' = "picked"
  /\ bestError' = pickBestError(failures)
  /\ UNCHANGED <<swapSettings, opts, promoCodes, fetchCount, promises, task,
                 results, failures, timer, bestQuote, closeCalls, outcome>>

\* ------------------------------------------------------ the call, end to end

PromoCode == "PROMO"

\* account.swapSettings: per plugin, enabled is absent, true or false.  An
\* account either stores only explicit flags or stores no explicit true.
SettingsDomain ==
  [Plugins -> {"true", "false"}] \cup [Plugins -> {"unset", "false"}]

\* The options a caller passes.
OptsDomain ==
  [preferPluginId : {Unset, "p2"},
   disabled : {Absent, Present({}), Present({"p1"})},
   promoCodes : {Absent, Present([id \in {"p1"} |-> PromoCode])},
   plugins : {Absent,
              Present([id \in {"p2"} |-> [disabled |-> TRUE, promoCode |-> Unset]]),
              Present([id \in {"p2"} |-> [disabled |-> FALSE, promoCode |-> PromoCode]])}]

Idle ==
  /\ promoCodes = EmptyMap
  /\ fetchCount = [p \in Plugins |-> 0]
  /\ promises = <<>>
  /\ task = [p \in Plugins |-> "idle"]
  /\ results = <<>>
  /\ failures = <<>>
  /\ timer = "idle"
  /\ bestQuote = NoQuote
  /\ bestError = NoError
  /\ closeCalls = [p \in Plugins |-> 0]
  /\ outcome = NoOutcome

Init ==
  /\ pc = "idle"
  /\ swapSettings \in SettingsDomain
  /\ opts \in OptsDomain
  /\ Idle

Next ==
  \/ FetchSwapQuote
  \/ \E p \in Plugins : \E q \in FetchedQuotes(p) : TaskResolve(p, q)
  \/ \E p \in Plugins : \E e \in FetchedErrors : TaskReject(p, e)
  \/ Deadline
  \/ ResolveHandler
  \/ RejectHandler

Spec == Init /\ [][Next]_vars

\* ------------------------------------- the success handler on any quote list

\* The state of a call whose first n plugins were started and have settled.
Settled(n, how) ==
  /\ swapSettings = [p \in Plugins |-> "unset"]
  /\ fetchCount = [p \in Plugins |-> IF PluginIndex(p) <= n THEN 1 ELSE 0]
  /\ promises = SubSeq(PluginKeys, 1, n)
  /\ task = [p \in Plugins |-> IF PluginIndex(p) <= n THEN how ELSE "idle"]
  /\ timer = "cleared"
  /\ bestQuote = NoQuote
  /\ bestError = NoError
  /\ closeCalls = [p \in Plugins |-> 0]
  /\ outcome = NoOutcome

\* What a plugin may put into a quote, whatever name it reports.
QuoteShapes ==
  [pluginName : {"p1", "p2"}, isEstimate : {"true", "false", Unset},
   toNativeAmount : {2, 3, 4}]

MakeQuote(id, shape) ==
  [id |-> id, pluginName |-> shape.pluginName, pluginId |-> Unset,
   isEstimate |-> shape.isEstimate, toNativeAmount |-> shape.toNativeAmount,
   fromNativeAmount |-> 2, quoteId |-> "q", close |-> "resolves"]

\* The lists of n quotes, one object per started plugin.
QuoteLists(n) ==
  {[i \in 1..n |-> MakeQuote(PluginKeys[i], shapes[i])] : shapes \in [1..n -> QuoteShapes]}

\* fuzzyTimeout has resolved with some list of quotes.
InitQuote ==
  /\ pc = "resolved"
  /\ \E n \in 1..MaxPlugins :
       /\ results \in QuoteLists(n)
       /\ Settled(n, "resolved")
  /\ failures = <<>>
  /\ opts \in [preferPluginId : {Unset, "p2"}, disabled : {Absent},
               promoCodes : {Absent}, plugins : {Absent}]
  /\ promoCodes \in {EmptyMap, [id \in {"p1"} |-> PromoCode]}

NextQuote == ResolveHandler

SpecQuote == InitQuote /\ [][NextQuote]_vars

\* ---------------------------------- the rejection handler on any error list

LimitError(name, amount) == [name |-> name, nativeMin |-> amount, nativeMax |-> amount]

ErrorDomain ==
  {Null,
   MakeError("InsufficientFundsError"), MakeError("PendingFundsError"),
   MakeError("SwapPermissionError"), MakeError("SwapCurrencyError"),
   MakeError("Error")}
  \cup {LimitError(n, m) : n \in {"SwapBelowLimitError", "SwapAboveLimitError"},
                           m \in {50, 100}}

\* fuzzyTimeout has rejected with some list of failures.
InitError ==
  /\ pc = "rejected"
  /\ \E n \in 1..MaxPlugins :
       /\ failures \in [1..n -> ErrorDomain]
       /\ Settled(n, "rejected")
  /\ results = <<>>
  /\ opts = [preferPluginId |-> Unset, disabled |-> Absent,
             promoCodes |-> Absent, plugins |-> Absent]
  /\ promoCodes = EmptyMap

NextError ==
  \/ RejectHandler
  \/ ApplyPickBestError

SpecError == InitError /\ [][NextError]_vars

\* ------------------------------------------------------------ properties

\* The selection rule as the options and the account state it: account-enabled
\* (enabled absent counts as true) and neither disabled in opts.disabled nor
\* by a disabled flag in the deprecated opts.plugins.
FlatDisabled == IF opts.disabled = Absent THEN {} ELSE opts.disabled[1]
LegacyDisabled ==
  IF opts.plugins = Absent THEN {}
  ELSE {id \in DOMAIN opts.plugins[1] : opts.plugins[1][id].disabled}
ActiveProviders ==
  {p \in Plugins : swapSettings[p] \in {"unset", "true"}
                   /\ p \notin FlatDisabled /\ p \notin LegacyDisabled}

\* C1: a call whose set of account-enabled, not disabled providers is empty
\* fails with the no-providers error and no provider's fetch is ever invoked.
C1_NoActiveProviders ==
  (pc # "idle" /\ ActiveProviders = {}) =>
    /\ pc = "thrown"
    /\ outcome = [kind |-> "error", value |-> NoProvidersError]
    /\ \A p \in Plugins : fetchCount[p] = 0 /\ task[p] = "idle"

C1_Witness ==
  /\ pc = "thrown"
  /\ ActiveProviders = {}
  /\ outcome.value = NoProvidersError
  /\ \E p \in Plugins : swapSettings[p] = "unset" /\ p \in FlatDisabled

\* C2: throughout a call, a provider's fetch has been invoked exactly once if
\* it is account-enabled and not disabled, and never otherwise; the started
\* tasks are in 1:1 correspondence with that set.
C2_FetchedExactlyOnce ==
  pc # "idle" =>
    /\ \A p \in Plugins : fetchCount[p] = IF p \in ActiveProviders THEN 1 ELSE 0
    /\ SeqToSet(promises) = ActiveProviders
    /\ Len(promises) = Cardinality(ActiveProviders)
    /\ \A p \in Plugins : task[p] # "idle" <=> p \in ActiveProviders

C2_Witness ==
  /\ pc = "returned"
  /\ \E p \in Plugins : swapSettings[p] = "unset" /\ fetchCount[p] = 1
  /\ \E p \in LegacyDisabled : swapSettings[p] = "unset" /\ fetchCount[p] = 0
  /\ \A p \in Plugins : task[p] # "pending"

\* C3: when the call hands back the winning quote, the winner is exactly one
\* of the quotes the race resolved with and close() has been invoked on every
\* other quote of that list, also when those close() calls fail.
C3_LosersClosedAtReturn ==
  /\ pc = "resolved" => Len(results) > 0
  /\ pc = "returned" =>
       /\ outcome.kind = "quote"
       /\ Cardinality({i \in 1..Len(results) : results[i].id = outcome.value.id}) = 1
       /\ bestQuote.id = outcome.value.id
       /\ \A i \in 1..Len(results) :
            results[i].id # outcome.value.id => closeCalls[results[i].id] >= 1

C3_Witness ==
  /\ pc = "returned"
  /\ Len(results) >= 3
  /\ \E i \in 1..Len(results) :
       results[i].id # outcome.value.id /\ results[i].close = "rejects"

\* C4: if preferPluginId is set and the list holds a quote from that provider,
\* the quote picked is that provider's, whatever the rates, estimate flags and
\* promo codes of the quotes.
C4_PreferredWins ==
  (pc # "resolved" /\ opts.preferPluginId # Unset
     /\ \E i \in 1..Len(results) : results[i].pluginName = opts.preferPluginId)
  => bestQuote.pluginName = opts.preferPluginId

C4_Witness ==
  /\ pc = "returned"
  /\ Len(results) >= 3
  /\ opts.preferPluginId = "p2"
  /\ bestQuote.pluginName = "p2"
  /\ bestQuote.isEstimate = "true"
  /\ \E i \in 1..Len(results) :
       /\ results[i].id # bestQuote.id
       /\ results[i].pluginName \in DOMAIN promoCodes
       /\ results[i].isEstimate = "false"
       /\ results[i].toNativeAmount > bestQuote.toNativeAmount
  /\ results[1].pluginName # "p2"

\* The two quotes of a pair, neither from the preferred provider.
PickedFromPair ==
  /\ pc # "resolved"
  /\ Len(results) = 2
  /\ \A i \in 1..2 : results[i].pluginName # opts.preferPluginId

QuoteHasPromo(q) == q.pluginName \in DOMAIN promoCodes
QuoteIsFirm(q) == q.isEstimate = "false"

\* C5: of two quotes, neither from the preferred provider, the one whose
\* provider has an active promo code is picked over the one whose provider has
\* none, in either order and whatever the rates and estimate flags.
C5_PromoWins ==
  PickedFromPair =>
    \A i, j \in 1..2 :
      (QuoteHasPromo(results[i]) /\ ~QuoteHasPromo(results[j])) => bestQuote = results[i]

\* C6: of two quotes, neither from the preferred provider and with the same
\* promo status, the firm one is picked over the estimate (isEstimate true or
\* absent), in either order, also when the estimate has the higher rate.
C6_FirmWins ==
  PickedFromPair =>
    \A i, j \in 1..2 :
      (/\ QuoteHasPromo(results[i]) = QuoteHasPromo(results[j])
       /\ QuoteIsFirm(results[i]) /\ ~QuoteIsFirm(results[j]))
      => bestQuote = results[i]

C6_Witness ==
  /\ pc = "returned"
  /\ PickedFromPair
  /\ QuoteHasPromo(results[1]) /\ QuoteHasPromo(results[2])
  /\ results[1].isEstimate = Unset /\ results[1].toNativeAmount = 4
  /\ results[2].isEstimate = "false" /\ results[2].toNativeAmount = 2
  /\ bestQuote = results[2]

\* C7: of two quotes that tie on the preferred-provider, promo and estimate
\* criteria, the one with the strictly higher exact rate
\* toNativeAmount / fromNativeAmount is picked, the left one on equal rates.
C7_ExactRateWins ==
  (/\ PickedFromPair
   /\ QuoteHasPromo(results[1]) = QuoteHasPromo(results[2])
   /\ QuoteIsFirm(results[1]) = QuoteIsFirm(results[2]))
  => bestQuote =
       IF results[2].toNativeAmount * results[1].fromNativeAmount
            > results[1].toNativeAmount * results[2].fromNativeAmount
         THEN results[2]
         ELSE results[1]

\* The rank table of the error ranker.
RankTable(e) ==
  IF e = Null THEN 0
  ELSE IF e.name \in {"InsufficientFundsError", "PendingFundsError"} THEN 6
  ELSE IF e.name = "SwapBelowLimitError" THEN 5
  ELSE IF e.name = "SwapAboveLimitError" THEN 4
  ELSE IF e.name = "SwapPermissionError" THEN 3
  ELSE IF e.name = "SwapCurrencyError" THEN 2
  ELSE 1

TopRank == CHOOSE r \in 0..6 :
  /\ \E i \in 1..Len(failures) : RankTable(failures[i]) = r
  /\ \A i \in 1..Len(failures) : RankTable(failures[i]) <= r

\* C8: when every provider failed, the error thrown to the caller is one of
\* the collected failures and no collected failure outranks it.
C8_ThrowsTopRankedFailure ==
  (pc = "thrown" /\ Len(failures) > 0) =>
    /\ outcome.kind = "error"
    /\ \E i \in 1..Len(failures) : failures[i] = outcome.value
    /\ RankTable(outcome.value) = TopRank

FailuresNamed(name) ==
  {failures[i] : i \in {j \in 1..Len(failures) : failures[j].name = name}}

\* C9: when the top-ranked failures are SwapBelowLimit errors, pickBestError
\* returns one with the smallest nativeMin of all SwapBelowLimit failures;
\* when they are SwapAboveLimit errors, one with the largest nativeMax.
C9_TightestLimit ==
  pc = "picked" =>
    /\ TopRank = 5 =>
         /\ ~bestError.threw
         /\ bestError.value \in FailuresNamed("SwapBelowLimitError")
         /\ \A e \in FailuresNamed("SwapBelowLimitError") :
              bestError.value.nativeMin <= e.nativeMin
    /\ TopRank = 4 =>
         /\ ~bestError.threw
         /\ bestError.value \in FailuresNamed("SwapAboveLimitError")
         /\ \A e \in FailuresNamed("SwapAboveLimitError") :
              bestError.value.nativeMax >= e.nativeMax

\* The providers whose quote the race has collected.
Collected == {results[i].id : i \in 1..Len(results)}

\* The deadline passing with a success present resolves the race there and
\* then, with the quotes of exactly the tasks that have succeeded.
C10_DeadlineStep ==
  (pc = "waiting" /\ timer = "armed" /\ timer' = "fired" /\ Len(results) > 0) =>
    /\ pc' = "resolved"
    /\ results' = results
    /\ Collected = {p \in Plugins : task[p] = "resolved"}

\* Once the race has settled, the list it resolved with never changes.
C10_ResultsFrozen == pc # "waiting" => results' = results

\* The success handler needs no pending task to settle, and the quote it
\* returns is one of the list.
C10_ReturnsFromCollected ==
  /\ pc = "resolved" => ENABLED ResolveHandler
  /\ pc = "returned" => bestQuote.id \in Collected /\ outcome.value.id = bestQuote.id

\* C10: when the deadline passes with a success present and tasks pending,
\* the call resolves at that point: the winner is computed from exactly the
\* quotes that had succeeded by then, and the call returns even if the
\* pending tasks never settle.
C10_ResolvesAtDeadline ==
  /\ [][C10_DeadlineStep]_vars
  /\ [][C10_ResultsFrozen]_vars
  /\ []C10_ReturnsFromCollected

C10_Witness ==
  /\ pc = "returned"
  /\ timer = "fired"
  /\ Len(results) = 2
  /\ Cardinality({p \in Plugins : task[p] = "pending"}) = 1
  /\ \A p \in Plugins : task[p] # "rejected"

\* The call has failed, or is about to fail, with the aggregate of the
\* providers' failures.
AggregateFailure == pc = "rejected" \/ (pc = "thrown" /\ bestError # NoError)

\* An aggregate failure means every started task has failed, and the error
\* thrown is ranked over the failures of all of them.
C11_AllFailed ==
  AggregateFailure =>
    /\ \A p \in SeqToSet(promises) : task[p] = "rejected"
    /\ Len(results) = 0
    /\ Len(failures) = Len(promises)
    /\ pc = "thrown" =>
         /\ outcome = [kind |-> "error", value |-> bestError.value]
         /\ \E i \in 1..Len(failures) : failures[i] = outcome.value
         /\ RankTable(outcome.value) = TopRank

\* After the deadline has passed without a success, a failure that leaves a
\* task pending does not fail the call, and a success resolves the race.
C11_DeferredStep ==
  (pc = "waiting" /\ timer = "fired") =>
    /\ (\E p \in Plugins : task'[p] = "pending") => pc' = "waiting" \/ pc' = "resolved"
    /\ Len(results') > Len(results) => pc' = "resolved"

\* The success that arrives after the deadline is the quote returned.
C11_LateSuccessReturned ==
  (timer = "fired" /\ Len(results) = 1 /\ Len(failures) > 0
     /\ pc \in {"returned", "thrown"})
  => pc = "returned" /\ outcome.kind = "quote" /\ outcome.value.id = results[1].id

\* C11: the call fails with the aggregate error only when all N started tasks
\* have settled and none succeeded, the error ranker receiving exactly those N
\* failures; after the deadline has passed with no success, a failure does not
\* fail the call while a task is pending and a later success is returned.
C11_FailsOnlyWhenAllFailed ==
  /\ []C11_AllFailed
  /\ [][C11_DeferredStep]_vars
  /\ []C11_LateSuccessReturned

C11_Witness ==
  /\ pc = "thrown"
  /\ timer = "fired"
  /\ bestError # NoError
  /\ Len(failures) >= 3
  /\ failures[Len(failures)].name = "InsufficientFundsError"
  /\ failures[1].name = "SwapCurrencyError"

\* A quote that arrives after the race has settled is released on arrival.
C12_LateStep ==
  \A p \in Plugins :
    (pc # "waiting" /\ task[p] = "pending" /\ task'[p] = "resolved")
    => closeCalls'[p] = closeCalls[p] + 1 /\ results' = results

\* Once the winner is returned, close() has been invoked on every other
\* quote fetched so far, collected by the race or arrived after it.
C12_AllButWinnerReleased ==
  pc = "returned" =>
    \A p \in Plugins :
      (task[p] = "resolved" /\ p # outcome.value.id) => closeCalls[p] >= 1

C13_CloseFailureHarmless ==
  bestQuote # NoQuote =>
    /\ pc = "returned"
    /\ outcome = [kind |-> "quote", value |-> upgradeQuote(bestQuote, swapPlugins).value]
    /\ \A i \in 1..Len(results) :
         results[i].id # bestQuote.id => closeCalls[results[i].id] >= 1

\* ------------------------------------ both handlers, on any list of outcomes

\* The quotes whose order is permuted: an absent isEstimate stands for true.
PickShapes ==
  [pluginName : {"p1", "p2"}, isEstimate : {"false", Unset},
   toNativeAmount : {2, 3, 4}]

\* fuzzyTimeout has resolved with some list of such quotes.
InitPickQuotes ==
  /\ pc = "resolved"
  /\ \E n \in 1..MaxPlugins :
       /\ results \in {[i \in 1..n |-> MakeQuote(PluginKeys[i], shapes[i])] :
                         shapes \in [1..n -> PickShapes]}
       /\ Settled(n, "resolved")
  /\ failures = <<>>
  /\ opts \in [preferPluginId : {Unset, "p2"}, disabled : {Absent},
               promoCodes : {Absent}, plugins : {Absent}]
  /\ promoCodes \in {EmptyMap, [id \in {"p1"} |-> PromoCode]}

\* fuzzyTimeout has settled, with some list of quotes or of failures.
InitPick == InitPickQuotes \/ InitError

NextPick ==
  \/ ResolveHandler
  \/ RejectHandler
  \/ ApplyPickBestError

SpecPick == InitPick /\ [][NextPick]_vars

\* The orders n outcomes can arrive in.
ArrivalOrders ==
  [n \in 1..MaxPlugins |->
    {f \in [1..n -> 1..n] : \A i, j \in 1..n : f[i] = f[j] => i = j}]

Reorder(s, f) == [i \in 1..Len(s) |-> s[f[i]]]

\* What the comparator looks at in a quote, as the code evaluates it: whether
\* it is from the preferred provider and, if it is not, the promo status of
\* its provider, its estimate flag and the integer quotient of its amounts.
QuoteCriteria(q) ==
  IF q.pluginName = opts.preferPluginId THEN <<TRUE, FALSE, FALSE, 0>>
  ELSE <<FALSE, QuoteHasPromo(q), QuoteIsFirm(q),
         q.toNativeAmount \div q.fromNativeAmount>>

\* What the ranker looks at in a failure.
ErrorCriteria(e) ==
  <<RankTable(e),
    IF RankTable(e) = 5 THEN e.nativeMin ELSE 0,
    IF RankTable(e) = 4 THEN e.nativeMax ELSE 0>>

\* A quote but for the identity of the object.
QuoteContent(q) == [q EXCEPT !.id = Unset]

LegacyPromoCode == "LEGACY"

\* The plugin ids the caller's options mention.
OptionIds == {"p1", "p2"}

\* An entry of the deprecated opts.plugins map.
LegacyEntries == [disabled : BOOLEAN, promoCode : {Unset, PromoCode, LegacyPromoCode}]

\* The maps over some of the option ids with values in the set v.
MapsInto(v) == UNION {[d -> v] : d \in SUBSET OptionIds}

\* The options a caller passes, flat and deprecated fields in any combination.
AnyOptsDomain ==
  [preferPluginId : {Unset},
   disabled : {Absent} \cup {Present(s) : s \in SUBSET OptionIds},
   promoCodes : {Absent} \cup {Present(m) : m \in MapsInto({PromoCode})},
   plugins : {Absent} \cup {Present(m) : m \in MapsInto(LegacyEntries)}]

InitOptions ==
  /\ pc = "idle"
  /\ swapSettings \in SettingsDomain
  /\ opts \in AnyOptsDomain
  /\ Idle

NextOptions == FetchSwapQuote

SpecOptions == InitOptions /\ [][NextOptions]_vars

\* The flat promo codes of the caller's options.
FlatPromoCodes == IF opts.promoCodes = Absent THEN EmptyMap ELSE opts.promoCodes[1]

\* The merge keeps the flat entries: what was disabled stays disabled (and is
\* not started), what had a promo code keeps that code.
C15_MergeStep ==
  (pc = "idle" /\ pc' # "idle") =>
    /\ FlatDisabled \subseteq FlatDisabled'
    /\ \A id \in FlatDisabled \cap Plugins : fetchCount'[id] = 0
    /\ \A id \in DOMAIN FlatPromoCodes :
         id \in DOMAIN promoCodes' /\ promoCodes'[id] = FlatPromoCodes[id]

\* C15: the merge of the deprecated opts.plugins never changes or removes an
\* entry of the flat maps: an id disabled before the merge is disabled after
\* it, and an id with a flat promo code keeps that very code, also when
\* opts.plugins[id] carries a different one.
C15_FlatEntriesKept == [][C15_MergeStep]_vars

\* C17: a call leaves the options object its caller passed unchanged: after
\* the call opts.disabled and opts.promoCodes hold exactly the entries they
\* held before, also when the deprecated opts.plugins contributes entries.
C17_OptsUnchanged ==
  [][/\ FlatDisabled' = FlatDisabled
     /\ FlatPromoCodes' = FlatPromoCodes
     /\ opts' = opts]_vars

\* ------------------------------- the success handler on quotes of any vintage

\* What a plugin may put into the identity fields of a quote: the deprecated
\* pluginName, the newer pluginId, both or neither; with or without a quoteId.
UpgradeShapes ==
  [pluginName : {"p1", Unset}, pluginId : {Unset, "p2"},
   isEstimate : {"true", "false", Unset}, quoteId : {Unset, "q"}]

MakeUpgradeQuote(id, shape) ==
  [id |-> id, pluginName |-> shape.pluginName, pluginId |-> shape.pluginId,
   isEstimate |-> shape.isEstimate, toNativeAmount |-> 2, fromNativeAmount |-> 2,
   quoteId |-> shape.quoteId, close |-> "resolves"]

\* fuzzyTimeout has resolved with some list of such quotes, while the last
\* plugin of the registry has not been started.
InitUpgrade ==
  /\ pc = "resolved"
  /\ \E n \in 1..(MaxPlugins - 1) :
       /\ results \in {[i \in 1..n |-> MakeUpgradeQuote(PluginKeys[i], shapes[i])] :
                         shapes \in [1..n -> UpgradeShapes]}
       /\ Settled(n, "resolved")
  /\ failures = <<>>
  /\ opts \in [preferPluginId : {Unset, "p2"}, disabled : {Absent},
               promoCodes : {Absent}, plugins : {Absent}]
  /\ promoCodes \in {EmptyMap, [id \in {"p1"} |-> PromoCode]}

NextUpgrade == ResolveHandler

SpecUpgrade == InitUpgrade /\ [][NextUpgrade]_vars

\* The quoteUri the registry publishes for a provider.
ProviderUri(p) == swapPlugins[p].swapInfo.quoteUri

\* C16: the quote returned is derived from the winning quote only: isEstimate
\* is resolved (true when unset), pluginId is resolved (the raw pluginId, else
\* the raw pluginName), and quoteUri is the provider's swapInfo.quoteUri
\* followed by the quoteId exactly when both are present, absent otherwise.
C16_UpgradedFromWinner ==
  pc = "returned" =>
    LET raw == bestQuote
        out == outcome.value
    IN /\ outcome.kind = "quote"
       /\ \E i \in 1..Len(results) : results[i] = raw
       /\ out.id = raw.id
       /\ out.pluginName = raw.pluginName
       /\ out.toNativeAmount = raw.toNativeAmount
       /\ out.fromNativeAmount = raw.fromNativeAmount
       /\ out.quoteId = raw.quoteId
       /\ out.close = raw.close
       /\ out.isEstimate = (IF raw.isEstimate = "false" THEN "false" ELSE "true")
       /\ out.pluginId # Unset
       /\ out.pluginId = (IF raw.pluginId # Unset THEN raw.pluginId ELSE raw.pluginName)
       /\ out.quoteUri =
            (IF raw.quoteId # Unset /\ ProviderUri(out.pluginId) # Unset
               THEN ProviderUri(out.pluginId) \o raw.quoteId
               ELSE Unset)

C16_Witness ==
  /\ pc = "returned"
  /\ Len(results) = 2
  /\ bestQuote.isEstimate = Unset
  /\ bestQuote.pluginId = "p2"
  /\ bestQuote.pluginName = "p1"
  /\ outcome.value.isEstimate = "true"
  /\ outcome.value.pluginId = "p2"
  /\ outcome.value.quoteUri = "https://p2/q"

\* The provider a quote is reported under once upgraded: its pluginId, or
\* its pluginName when it has none.
ReportedProvider(q) == IF q.pluginId # Unset THEN q.pluginId ELSE q.pluginName

\* A quote as a plugin that reports only the one identity would send it.
Normalized(q) == [q EXCEPT !.pluginName = ReportedProvider(q)]

\* C20: the provider identity the comparator matches against preferPluginId
\* and promoCodes is the one the returned quote reports as pluginId: the quote
\* picked is the one the rules pick when they read each quote's reported
\* provider, also for quotes whose pluginName is absent or differs.
C20_ComparatorUsesReportedId ==
  bestQuote # NoQuote =>
    /\ bestQuote.id =
         pickBestQuote([i \in 1..Len(results) |-> Normalized(results[i])],
                       opts.preferPluginId, promoCodes).id
    /\ pc = "returned" => QuoteProvider(bestQuote) = outcome.value.pluginId

\* The position of the first top-ranked failure.
FirstTopRanked ==
  CHOOSE i \in 1..Len(failures) :
    /\ RankTable(failures[i]) = TopRank
    /\ \A j \in 1..(i - 1) : RankTable(failures[j]) # TopRank

\* C18: pickBestError is total and keeps the left operand on ties: for every
\* non-empty list of failures, null failures and several equally top-ranked
\* failures included, it returns without raising, and unless the top-ranked
\* failures are limit errors it returns the first of them in list order.
C18_TotalAndLeftBiased ==
  pc = "picked" =>
    /\ ~bestError.threw
    /\ TopRank \notin {4, 5} => bestError.value = failures[FirstTopRanked]

\* C19: the aggregator never invokes close() on the quote it returns as the
\* winner, and invokes close() at most once on any other quote.
C19_WinnerNeverClosed ==
  /\ \A p \in Plugins : closeCalls[p] <= 1
  /\ bestQuote # NoQuote => closeCalls[bestQuote.id] = 0
  /\ pc = "returned" => closeCalls[outcome.value.id] = 0

C19_Witness ==
  /\ pc = "returned"
  /\ Len(results) = 2
  /\ closeCalls[outcome.value.id] = 0
  /\ \A p \in Plugins : p # outcome.value.id => closeCalls[p] = 1
  /\ \E p \in Plugins : task[p] = "resolved" /\ p \notin Collected

====
